---- MODULE Spec2Model ----
(***************************************************************************)
(* A model of the circadia crate: the SunEvent ordering (event.rs), the    *)
(* sunrise/sunset algorithm (algorithm.rs) and the forecast / history      *)
(* iterators built on a cycled whitelist (iter.rs).                        *)
(*                                                                         *)
(* Representation.                                                         *)
(*  - A DateTime<Utc> is a whole number of seconds since 00:00:00 of day 0; *)
(*    a Date<Utc> is a day number (an integer, negative before day 0).     *)
(*  - An f64 holding hours is a record [nan, v] with v in ticks of a       *)
(*    quarter second, so that the float-to-integer cast of algorithm.rs:34 *)
(*    has a fraction to drop.  The cosine of the hour angle is kept as an exact  *)
(*    fraction of thousandths.                                             *)
(*  - The solar geometry upstream of the hour angle (approximate_time,     *)
(*    mean_anomaly, true_longitude, right_ascension and the declination)   *)
(*    is floating-point trigonometry of the date and the position.  Its    *)
(*    results enter the model as the input `sky`: for every day of the     *)
(*    year, the two products of algorithm.rs:74-75 and the term            *)
(*    RA - 0.06571 t - 6.622 of algorithm.rs:93.                           *)
(*  - date.ordinal() has period one year; the model's year has YearLen     *)
(*    days.                                                                *)
(***************************************************************************)
EXTENDS Integers, Sequences, FiniteSets, TLC

\* ------------------------------------------------------------------ bounds
\* Days in the model's year (the period of date.ordinal()).
YearLen == 2
\* Longest whitelist slice handed to starting_from.
MaxLen == 2

\* Days the iterators are followed from the start date, either way.
Horizon == YearLen + 1

\* --------------------------------------------------------------- event.rs
Zeniths == {"Golden", "Official", "Civil", "Nautical", "Astronomical"}
Kinds == {"Sunrise", "Sunset"}

\* #[derive(Ord)] on Zenith: the declaration order of the variants.
ZenithRank(z) ==
    CASE z = "Golden" -> 0
      [] z = "Official" -> 1
      [] z = "Civil" -> 2
      [] z = "Nautical" -> 3
      [] z = "Astronomical" -> 4

\* #[derive(Ord)] on Event: Sunrise < Sunset.
EventRank(k) == IF k = "Sunrise" THEN 0 ELSE 1

\* Zenith::angle, in degrees.
angle(z) ==
    CASE z = "Golden" -> 80
      [] z = "Official" -> 90
      [] z = "Civil" -> 96
      [] z = "Nautical" -> 102
      [] z = "Astronomical" -> 108

SunEventNew(z, k) == [zenith |-> z, event |-> k]
AllEvents == {SunEventNew(z, k) : z \in Zeniths, k \in Kinds}

DAWN == SunEventNew("Civil", "Sunrise")
DUSK == SunEventNew("Civil", "Sunset")
SUNRISE == SunEventNew("Official", "Sunrise")
SUNSET == SunEventNew("Official", "Sunset")

is_sunrise(e) == e.event = "Sunrise"
is_sunset(e) == ~is_sunrise(e)

\* std::cmp::Ordering and Ordering::reverse.
IntCmp(a, b) == IF a < b THEN "Less" ELSE IF a > b THEN "Greater" ELSE "Equal"
reverse(o) == IF o = "Less" THEN "Greater" ELSE IF o = "Greater" THEN "Less" ELSE "Equal"

ZenithCmp(a, b) == IntCmp(ZenithRank(a), ZenithRank(b))
EventCmp(a, b) == IntCmp(EventRank(a), EventRank(b))

\* A slip of the comparison: the Sunrise arm without its .reverse().
cmpNoReverse(a, b) ==
    IF a.event = b.event THEN ZenithCmp(a.zenith, b.zenith)
    ELSE EventCmp(a.event, b.event)

\* impl Ord for SunEvent.
cmp(a, b) ==
    IF a.event = "Sunrise" /\ b.event = "Sunrise"
    THEN reverse(ZenithCmp(a.zenith, b.zenith))
    ELSE IF a.event = "Sunset" /\ b.event = "Sunset"
    THEN ZenithCmp(a.zenith, b.zenith)
    ELSE EventCmp(a.event, b.event)

\* #[derive(PartialEq)] on SunEvent: structural equality.
eq(a, b) == a.zenith = b.zenith /\ a.event = b.event

\* ---------------------------------------------------------------- iter.rs
\* Vec::sort (stable) driven by cmp: insertion after the last element that
\* is not Greater.
RECURSIVE Insert(_, _)
Insert(s, x) ==
    IF s = <<>> THEN <<x>>
    ELSE IF cmp(x, s[Len(s)]) = "Less"
         THEN Append(Insert(SubSeq(s, 1, Len(s) - 1), x), s[Len(s)])
         ELSE Append(s, x)

RECURSIVE sort(_)
sort(s) ==
    IF s = <<>> THEN <<>>
    ELSE Insert(sort(SubSeq(s, 1, Len(s) - 1)), s[Len(s)])

\* Vec::dedup: drops an element equal to the one before it.
RECURSIVE dedup(_)
dedup(s) ==
    IF Len(s) <= 1 THEN s
    ELSE LET front == dedup(SubSeq(s, 1, Len(s) - 1))
         IN  IF eq(s[Len(s)], front[Len(front)]) THEN front
             ELSE Append(front, s[Len(s)])

\* enum CycleState<T> { Next(T), Restarting }
NoEvent == [zenith |-> "-", event |-> "-"]
CycleNext(e) == [tag |-> "Next", event |-> e]
Restarting == [tag |-> "Restarting", event |-> NoEvent]

\* A slip of cycled(): the sort left out.
cycled_events_unsorted(events) ==
    [i \in 1..Len(dedup(events)) |-> CycleNext(dedup(events)[i])] \o <<Restarting>>

\* The vector cycled() builds once its assertion has passed.
cycled_events(events) ==
    [i \in 1..Len(dedup(sort(events))) |-> CycleNext(dedup(sort(events))[i])]
        \o <<Restarting>>

\* A slip of cycled(): the assertion left out.
cycledNoAssert(events) == [panics |-> FALSE, items |-> cycled_events(events)]

\* A slip of cycled(): the cycle built over all named presets.
cycledAllPresets(events) ==
    [panics |-> events = <<>>,
     items |-> IF events = <<>> THEN <<>>
               ELSE cycled_events(<<DAWN, SUNRISE, SUNSET, DUSK>>)]

\* fn cycled: panics on an empty slice, else the items the Cycle repeats.
cycled(events) ==
    [panics |-> events = <<>>,
     items |-> IF events = <<>> THEN <<>> ELSE cycled_events(events)]

\* ------------------------------------------------------------ chrono, f64
\* const SECS_IN_HOUR.
SECS_IN_HOUR == 3600

SecsPerDay == 24 * SECS_IN_HOUR
\* Ticks (quarter seconds) in an hour: the resolution of an f64 of hours.
TicksPerHour == 4 * SECS_IN_HOUR
TicksPerSec == TicksPerHour \div SECS_IN_HOUR

\* Date::succ, Date::pred, Date::and_hms, DateTime::date.
succ(date) == date + 1
pred(date) == date - 1
and_hms(date, h, m, s) == date * SecsPerDay + h * SECS_IN_HOUR + m * 60 + s
date_of(t) == t \div SecsPerDay

\* Datelike::ordinal: the day of the year, from 1.
ordinal(date) == (date % YearLen) + 1

Some(x) == [some |-> TRUE, v |-> x]
None == [some |-> FALSE, v |-> 0]

F(x) == [nan |-> FALSE, v |-> x]
NaN == [nan |-> TRUE, v |-> 0]
FAdd(x, y) == IF x.nan \/ y.nan THEN NaN ELSE F(x.v + y.v)
FSub(x, y) == IF x.nan \/ y.nan THEN NaN ELSE F(x.v - y.v)
\* Comparisons with a NaN operand are false.
FGt(x, y) == ~x.nan /\ ~y.nan /\ x.v > y.v
FLt(x, y) == ~x.nan /\ ~y.nan /\ x.v < y.v

\* The f64 `%`: the remainder has the sign of the dividend.
FRem(x, y) ==
    IF x.nan \/ y.nan THEN NaN
    ELSE IF x.v >= 0 THEN F(x.v % y.v) ELSE F(-((-x.v) % y.v))

Abs(n) == IF n < 0 THEN -n ELSE n

\* A slip of the cast: the seconds rounded to the nearest whole second.
round_u32_secs(ut) ==
    IF ut.nan THEN 0 ELSE (2 * ut.v + TicksPerSec) \div (2 * TicksPerSec)

\* `as u32` on an f64 of seconds: the fraction is dropped, and NaN becomes 0
\* (the saturating cast; the x86-64 conversion older compilers emitted gives
\* 0 as well).
as_u32_secs(ut) == IF ut.nan THEN 0 ELSE ut.v \div TicksPerSec

\* ---------------------------------------------------------- algorithm.rs
\* fn rem_euclid.
rem_euclid(lhs, rhs) ==
    LET r == FRem(lhs, rhs)
    IN  IF FLt(r, F(0)) THEN FAdd(r, F(Abs(rhs.v))) ELSE r

\* f64::cos of a zenith angle in degrees, in thousandths.
CosDeg(deg) ==
    CASE deg = 80 -> 174
      [] deg = 90 -> 0
      [] deg = 96 -> -105
      [] deg = 102 -> -208
      [] deg = 108 -> -309

\* cosH of local_hour_angle as the exact fraction num / den, den > 0:
\* num = z.cos() - sinDec * sin(lat), den = cosDec * cos(lat).
cosH(term, event) ==
    [num |-> CosDeg(angle(event.zenith)) - term.sinTerm, den |-> term.cosTerm]

\* f64::acos(..).to_degrees() / 15.0 in ticks: NaN outside [-1, 1], and
\* inside it the line through acos(1) = 0, acos(0) = 90, acos(-1) = 180.
acos_hours(c) ==
    IF c.num > c.den \/ c.num < -c.den THEN NaN
    ELSE F((6 * TicksPerHour * (c.den - c.num)) \div c.den)

\* fn local_hour_angle: None, or Some(H / 15.0).
local_hour_angle(term, event) ==
    IF cosH(term, event).num > cosH(term, event).den /\ is_sunrise(event)
    THEN None
    ELSE IF cosH(term, event).num < -cosH(term, event).den /\ is_sunset(event)
    THEN None
    ELSE IF is_sunrise(event)
    THEN Some(FSub(F(24 * TicksPerHour), acos_hours(cosH(term, event))))
    ELSE Some(acos_hours(cosH(term, event)))

\* fn local_mean_time: H + (RA - 0.06571 * t - 6.622).
local_mean_time(H, term) == FAdd(H, F(term.base))

\* UT of time_of_event, for an hour angle H.
universal_time(H, lng_hour, term) ==
    rem_euclid(FSub(local_mean_time(H, term), F(lng_hour)), F(24 * TicksPerHour))

\* A slip of should_be_tomorrow: the is_sunset test left out.
should_be_tomorrow_any_event(lng_hour, UT, event) ==
    lng_hour < 0 /\ FLt(UT, F(12 * TicksPerHour))

should_be_yesterday(lng_hour, UT, event) ==
    lng_hour > 0 /\ FGt(UT, F(12 * TicksPerHour)) /\ is_sunrise(event)

should_be_tomorrow(lng_hour, UT, event) ==
    lng_hour < 0 /\ FLt(UT, F(12 * TicksPerHour)) /\ is_sunset(event)

\* The date time_of_event puts the time of day on.
corrected_date(date, lng_hour, UT, event) ==
    IF should_be_yesterday(lng_hour, UT, event) THEN pred(date)
    ELSE IF should_be_tomorrow(lng_hour, UT, event) THEN succ(date)
    ELSE date

\* pub fn time_of_event, given the solar terms of (date.ordinal(), event.event).
time_of_event(date, lng_hour, event, term) ==
    IF ~local_hour_angle(term, event).some THEN None
    ELSE LET UT == universal_time(local_hour_angle(term, event).v, lng_hour, term)
         IN  Some(corrected_date(date, lng_hour, UT, event) * SecsPerDay
                  + as_u32_secs(UT))

\* ------------------------------------------------------------------ state
VARIABLES
    whitelist,             \* starting_from's event_whitelist argument
    start_date,            \* starting_from's start_date argument
    position,              \* starting_from's position argument: its lng_hour, in ticks
    sky,                   \* the solar terms at that position, by ordinal
    pc,                    \* "new", "panicked", "events", "forecast" or "history"
    pos,                   \* SunEvents.pos
    current_time,          \* SunEvents.current_time
    event_whitelist_iter,  \* SunEvents.event_whitelist_iter: the items and the place in them
    running,               \* a next() call is inside its loop
    restarts,              \* Restarting items taken by the current (or last) next() call
    yielded,               \* the items next() has returned, in order
    boundaries,            \* the date the cursor was put on by each Restarting step, in order
    queried,               \* the date handed to each time_of_event call, in order
    call,                  \* the present (or last) call of next(): the cursor on entry, and
                           \* how many dates had been queried before it
    evaluated,             \* the descriptors handed to time_of_event since the last
                           \* Restarting item (or since construction), in order
    fresh,                 \* a second generator, constructed from the timestamp the
                           \* first has just yielded: its cursor, its place in its
                           \* cycle and what its first next() returned
    alg,                   \* one call of time_of_event: its arguments and its result
    ord                    \* one use of the SunEvent order: its operands and its results

iter_vars == <<whitelist, start_date, position, sky, pc, pos, current_time,
               event_whitelist_iter, running, restarts, yielded, boundaries,
               queried, call, evaluated, fresh>>
vars == <<iter_vars, alg, ord>>

\* ----------------------------------------------------------------- inputs
\* The descriptors whitelists are drawn from: the four named presets.
WEvents == {DAWN, SUNRISE, SUNSET, DUSK}
Whitelists == UNION {[1..n -> WEvents] : n \in 0..MaxLen}

\* lng / 15.0 for longitudes 120 W, 0 and 120 E.
Positions == {-8 * TicksPerHour, 0, 8 * TicksPerHour}

StartDates == {and_hms(0, 0, 0, 0), and_hms(0, 12, 0, 0)}

\* RA - 0.06571 t - 6.622: twelve hours before local noon, and three quarters
\* of a second.
NoonTerm == 3 - 12 * TicksPerHour

\* Solar terms in thousandths: sinTerm = sinDec * sin(lat), cosTerm =
\* cosDec * cos(lat).  An equinox at the equator; midwinter and midsummer at
\* latitude 70 (sinDec = -/+ 0.39, sin(lat) = 0.94, cosDec * cos(lat) = 0.31).
Equinox == [sinTerm |-> 0, cosTerm |-> 1000, base |-> NoonTerm]
Midwinter == [sinTerm |-> -370, cosTerm |-> 310, base |-> NoonTerm]
Midsummer == [sinTerm |-> 370, cosTerm |-> 310, base |-> NoonTerm]
SkyTerms == {Equinox, Midwinter, Midsummer}

Range(s) == {s[i] : i \in DOMAIN s}

\* The skies: any terms for each day of the year.  (Sunrise and sunset of one
\* day share their terms: half a day of solar motion is below a thousandth.)
Skies == [1..YearLen -> SkyTerms]

\* time_of_event at the modelled position: the terms of the date's ordinal.
toe(date, event) == time_of_event(date, pos, event, sky[ordinal(date)])

NoAlg == [phase |-> "idle"]
NoOrd == [phase |-> "idle"]
NoFresh ==
    [pc |-> "none", current_time |-> 0, items |-> <<>>, at |-> 1, from |-> 0,
     yielded |-> <<>>]

IterIdle ==
    /\ whitelist = <<>>
    /\ start_date = 0
    /\ position = 0
    /\ sky = [d \in 1..YearLen |-> Equinox]
    /\ pc = "idle"
    /\ pos = 0
    /\ current_time = 0
    /\ event_whitelist_iter = [items |-> <<>>, at |-> 1]
    /\ running = FALSE
    /\ restarts = 0
    /\ yielded = <<>>
    /\ boundaries = <<>>
    /\ queried = <<>>
    /\ call = [time |-> 0, asked |-> 0]
    /\ evaluated = <<>>
    /\ fresh = NoFresh

\* ------------------------------------------------------------- SunEvents
Init ==
    /\ whitelist \in Whitelists
    /\ start_date \in StartDates
    /\ position \in Positions
    /\ sky \in Skies
    /\ pc = "new"
    /\ pos = 0
    /\ current_time = 0
    /\ event_whitelist_iter = [items |-> <<>>, at |-> 1]
    /\ running = FALSE
    /\ restarts = 0
    /\ yielded = <<>>
    /\ boundaries = <<>>
    /\ queried = <<>>
    /\ call = [time |-> 0, asked |-> 0]
    /\ evaluated = <<>>
    /\ fresh = NoFresh
    /\ alg = NoAlg
    /\ ord = NoOrd

\* SunEvents::starting_from: the fields, unless cycled() panics.
StartingFrom ==
    /\ pc = "new"
    /\ IF cycled(whitelist).panics
       THEN /\ pc' = "panicked"
            /\ UNCHANGED <<pos, current_time, event_whitelist_iter>>
       ELSE /\ pc' = "events"
            /\ pos' = position
            /\ current_time' = start_date
            /\ event_whitelist_iter' = [items |-> cycled(whitelist).items, at |-> 1]
    /\ UNCHANGED <<whitelist, start_date, position, sky, running, restarts,
                   yielded, boundaries, queried, call, evaluated, fresh, alg, ord>>

\* SunEvents::forecast.
Forecast ==
    /\ pc = "events"
    /\ pc' = "forecast"
    /\ UNCHANGED <<whitelist, start_date, position, sky, pos, current_time,
                   event_whitelist_iter, running, restarts, yielded, boundaries,
                   queried, call, evaluated, fresh, alg, ord>>

\* SunEvents::history.
History ==
    /\ pc = "events"
    /\ pc' = "history"
    /\ UNCHANGED <<whitelist, start_date, position, sky, pos, current_time,
                   event_whitelist_iter, running, restarts, yielded, boundaries,
                   queried, call, evaluated, fresh, alg, ord>>

\* Cycle::next: the item at the place, and the place after it.
cycle_item == event_whitelist_iter.items[event_whitelist_iter.at]
cycle_advanced ==
    [event_whitelist_iter EXCEPT
        !.at = (event_whitelist_iter.at % Len(event_whitelist_iter.items)) + 1]

\* Slips of the two guards of next(): the comparison not strict.
forecast_accepts_or_equal(event_time, now) == event_time >= now
history_accepts_or_equal(event_time, now) == event_time <= now

\* ForecastedSunEvents::next: `event_time > self.0.current_time`.
forecast_accepts(event_time, now) == event_time > now

\* HistoricSunEvents::next: `event_time < self.0.current_time`.
history_accepts(event_time, now) == event_time < now

\* A slip of the backward Restarting arm: the time of day reset to 00:00:00.
yesterday_midnight(now) == and_hms(pred(date_of(now)), 0, 0, 0)

\* The Restarting arm of ForecastedSunEvents::next: `tomorrow.and_hms(0, 0, 0)`
\* with tomorrow = current_time.date().succ().
tomorrow_and_hms(now) == and_hms(succ(date_of(now)), 0, 0, 0)

\* The Restarting arm of HistoricSunEvents::next: `yesterday.and_hms(23, 59, 59)`
\* with yesterday = current_time.date().pred().
yesterday_and_hms(now) == and_hms(pred(date_of(now)), 23, 59, 59)

\* The caller of the two generators: single-threaded, so no turn of a call
\* runs while the first next() of the second generator has not returned; and
\* once it has, the caller takes one more occurrence from the first generator,
\* to hold against it, and stops.
FreshCalling ==
    /\ fresh.pc # "none"
    /\ fresh.yielded = <<>> \/ (~running /\ Len(yielded) > fresh.from)

\* One turn of the loop of ForecastedSunEvents::next.
ForecastNext ==
    /\ pc = "forecast"
    /\ ~FreshCalling
    /\ event_whitelist_iter' = cycle_advanced
    /\ call' = IF running THEN call ELSE [time |-> current_time, asked |-> Len(queried)]
    /\ IF cycle_item.tag = "Next"
       THEN LET event_time == toe(date_of(current_time), cycle_item.event)
            IN  /\ queried' = Append(queried, date_of(current_time))
                /\ evaluated' = Append(evaluated, cycle_item.event)
                /\ UNCHANGED boundaries
                /\ IF event_time.some /\ forecast_accepts(event_time.v, current_time)
                   THEN /\ current_time' = event_time.v
                        /\ yielded' = Append(yielded,
                                        [event |-> cycle_item.event, time |-> event_time.v])
                        /\ running' = FALSE
                        /\ restarts' = IF running THEN restarts ELSE 0
                   ELSE /\ running' = TRUE
                        /\ restarts' = IF running THEN restarts ELSE 0
                        /\ UNCHANGED <<current_time, yielded>>
       ELSE /\ succ(date_of(current_time)) <= Horizon
            /\ current_time' = tomorrow_and_hms(current_time)
            /\ boundaries' = Append(boundaries, succ(date_of(current_time)))
            /\ UNCHANGED queried
            /\ evaluated' = <<>>
            /\ running' = TRUE
            /\ restarts' = IF running THEN restarts + 1 ELSE 1
            /\ UNCHANGED yielded
    /\ UNCHANGED <<whitelist, start_date, position, sky, pc, pos, fresh, alg, ord>>

\* One turn of the loop of HistoricSunEvents::next.
HistoricNext ==
    /\ pc = "history"
    /\ ~FreshCalling
    /\ event_whitelist_iter' = cycle_advanced
    /\ call' = IF running THEN call ELSE [time |-> current_time, asked |-> Len(queried)]
    /\ IF cycle_item.tag = "Next"
       THEN LET event_time == toe(date_of(current_time), cycle_item.event)
            IN  /\ queried' = Append(queried, date_of(current_time))
                /\ evaluated' = Append(evaluated, cycle_item.event)
                /\ UNCHANGED boundaries
                /\ IF event_time.some /\ history_accepts(event_time.v, current_time)
                   THEN /\ current_time' = event_time.v
                        /\ yielded' = Append(yielded,
                                        [event |-> cycle_item.event, time |-> event_time.v])
                        /\ running' = FALSE
                        /\ restarts' = IF running THEN restarts ELSE 0
                   ELSE /\ running' = TRUE
                        /\ restarts' = IF running THEN restarts ELSE 0
                        /\ UNCHANGED <<current_time, yielded>>
       ELSE /\ pred(date_of(current_time)) >= -Horizon
            /\ current_time' = yesterday_and_hms(current_time)
            /\ boundaries' = Append(boundaries, pred(date_of(current_time)))
            /\ UNCHANGED queried
            /\ evaluated' = <<>>
            /\ running' = TRUE
            /\ restarts' = IF running THEN restarts + 1 ELSE 1
            /\ UNCHANGED yielded
    /\ UNCHANGED <<whitelist, start_date, position, sky, pc, pos, fresh, alg, ord>>

\* SunEvents::starting_from(t, position, whitelist) followed by forecast() or
\* history(), as the first generator is: t the timestamp next() has just
\* returned.
Restart ==
    /\ pc \in {"forecast", "history"}
    /\ ~running
    /\ yielded # <<>>
    /\ fresh.pc = "none"
    /\ ~cycled(whitelist).panics
    /\ fresh' = [pc |-> pc, current_time |-> yielded[Len(yielded)].time,
                 items |-> cycled(whitelist).items, at |-> 1,
                 from |-> Len(yielded), yielded |-> <<>>]
    /\ UNCHANGED <<whitelist, start_date, position, sky, pc, pos, current_time,
                   event_whitelist_iter, running, restarts, yielded, boundaries,
                   queried, call, evaluated, alg, ord>>

\* Cycle::next of the second generator.
fresh_item == fresh.items[fresh.at]
fresh_advanced == (fresh.at % Len(fresh.items)) + 1

\* One turn of the loop of ForecastedSunEvents::next, on the second generator.
FreshForecastNext ==
    /\ fresh.pc = "forecast"
    /\ fresh.yielded = <<>>
    /\ IF fresh_item.tag = "Next"
       THEN LET event_time == toe(date_of(fresh.current_time), fresh_item.event)
            IN  IF event_time.some /\ forecast_accepts(event_time.v, fresh.current_time)
                THEN fresh' = [fresh EXCEPT
                                 !.at = fresh_advanced,
                                 !.current_time = event_time.v,
                                 !.yielded = <<[event |-> fresh_item.event,
                                                time |-> event_time.v]>>]
                ELSE fresh' = [fresh EXCEPT !.at = fresh_advanced]
       ELSE /\ succ(date_of(fresh.current_time)) <= Horizon
            /\ fresh' = [fresh EXCEPT
                            !.at = fresh_advanced,
                            !.current_time = tomorrow_and_hms(fresh.current_time)]
    /\ UNCHANGED <<whitelist, start_date, position, sky, pc, pos, current_time,
                   event_whitelist_iter, running, restarts, yielded, boundaries,
                   queried, call, evaluated, alg, ord>>

\* One turn of the loop of HistoricSunEvents::next, on the second generator.
FreshHistoricNext ==
    /\ fresh.pc = "history"
    /\ fresh.yielded = <<>>
    /\ IF fresh_item.tag = "Next"
       THEN LET event_time == toe(date_of(fresh.current_time), fresh_item.event)
            IN  IF event_time.some /\ history_accepts(event_time.v, fresh.current_time)
                THEN fresh' = [fresh EXCEPT
                                 !.at = fresh_advanced,
                                 !.current_time = event_time.v,
                                 !.yielded = <<[event |-> fresh_item.event,
                                                time |-> event_time.v]>>]
                ELSE fresh' = [fresh EXCEPT !.at = fresh_advanced]
       ELSE /\ pred(date_of(fresh.current_time)) >= -Horizon
            /\ fresh' = [fresh EXCEPT
                            !.at = fresh_advanced,
                            !.current_time = yesterday_and_hms(fresh.current_time)]
    /\ UNCHANGED <<whitelist, start_date, position, sky, pc, pos, current_time,
                   event_whitelist_iter, running, restarts, yielded, boundaries,
                   queried, call, evaluated, alg, ord>>

Next ==
    \/ StartingFrom
    \/ Forecast
    \/ History
    \/ ForecastNext
    \/ HistoricNext
    \/ Restart
    \/ FreshForecastNext
    \/ FreshHistoricNext

Spec == Init /\ [][Next]_vars

\* ------------------------------------------- time_of_event, called alone
\* Terms at which cosH of an Official descriptor is exactly 1 and exactly -1.
GrazingLow == [sinTerm |-> -310, cosTerm |-> 310, base |-> NoonTerm]
GrazingHigh == [sinTerm |-> 310, cosTerm |-> 310, base |-> NoonTerm]
AlgTerms == SkyTerms \cup {GrazingLow, GrazingHigh}

InitAlg ==
    /\ IterIdle
    /\ ord = NoOrd
    /\ alg \in [phase : {"args"}, date : 0..(YearLen - 1), lng_hour : Positions,
                event : AllEvents, term : AlgTerms, result : {None}]

\* A call of time_of_event on the arguments.
AlgCall ==
    /\ alg.phase = "args"
    /\ alg' = [alg EXCEPT
                 !.phase = "done",
                 !.result = time_of_event(alg.date, alg.lng_hour, alg.event, alg.term)]
    /\ UNCHANGED <<iter_vars, ord>>

NextAlg == AlgCall

SpecAlg == InitAlg /\ [][NextAlg]_vars

\* ------------------------------------------------ the SunEvent order, alone
TestList == <<DUSK, DAWN, SUNRISE, SUNSET>>

InitOrd ==
    /\ IterIdle
    /\ alg = NoAlg
    /\ \E a \in AllEvents, b \in AllEvents, c \in AllEvents :
         \E l \in {TestList, <<a, b, c>>} :
            ord = [phase |-> "args", a |-> a, b |-> b, c |-> c, list |-> l,
                   ab |-> "Equal", ba |-> "Equal", bc |-> "Equal", ac |-> "Equal",
                   sorted |-> <<>>]

\* The comparisons among three descriptors, and a sort of the list.
OrdCompare ==
    /\ ord.phase = "args"
    /\ ord' = [ord EXCEPT
                 !.phase = "done",
                 !.ab = cmp(ord.a, ord.b),
                 !.ba = cmp(ord.b, ord.a),
                 !.bc = cmp(ord.b, ord.c),
                 !.ac = cmp(ord.a, ord.c),
                 !.sorted = sort(ord.list)]
    /\ UNCHANGED <<iter_vars, alg>>

NextOrd == OrdCompare

SpecOrd == InitOrd /\ [][NextOrd]_vars

\* ------------------------------------------------------------- properties
Built == pc \in {"events", "forecast", "history"}

\* cosH of local_hour_angle lies in [-1, 1]: the sun crosses the zenith.
CosHWithin(term, event) ==
    /\ cosH(term, event).num <= cosH(term, event).den
    /\ cosH(term, event).num >= -cosH(term, event).den

\* time_of_event returns a timestamp for e on every date at the position, and
\* each is a crossing of the zenith (the timestamps C10 is about are left out).
AlwaysOccurs(e) ==
    \A d \in 1..YearLen :
        /\ time_of_event(d, position, e, sky[ordinal(d)]).some
        /\ CosHWithin(sky[ordinal(d)], e)

\* C1. Forward monotonicity: every timestamp a forecast has yielded is strictly
\* later than the start timestamp and than every timestamp yielded before it.
C1_ForecastStrictlyIncreasing ==
    pc = "forecast" =>
        \A i \in DOMAIN yielded :
            /\ yielded[i].time > start_date
            /\ \A j \in 1..(i - 1) : yielded[j].time < yielded[i].time

\* A forecast that has yielded three times, the last on a later day than the
\* first.
C1_Witness ==
    /\ pc = "forecast"
    /\ Len(yielded) >= 3
    /\ date_of(yielded[Len(yielded)].time) > date_of(yielded[1].time)

\* C2. Backward monotonicity: every timestamp a history has yielded is strictly
\* earlier than the start timestamp and than every timestamp yielded before it.
C2_HistoryStrictlyDecreasing ==
    pc = "history" =>
        \A i \in DOMAIN yielded :
            /\ yielded[i].time < start_date
            /\ \A j \in 1..(i - 1) : yielded[j].time > yielded[i].time

\* A history that has yielded three times, the last on an earlier day than the
\* first.
C2_Witness ==
    /\ pc = "history"
    /\ Len(yielded) >= 3
    /\ date_of(yielded[Len(yielded)].time) < date_of(yielded[1].time)

SingleAlwaysOccurring ==
    /\ Cardinality(Range(whitelist)) = 1
    /\ \A e \in Range(whitelist) : AlwaysOccurs(e)

\* C3. No-skip, forward: with a whitelist of one descriptor that occurs on
\* every date, each yielded timestamp falls on the day after the one before it.
C3_ForecastNeverSkipsADay ==
    (pc = "forecast" /\ SingleAlwaysOccurring) =>
        \A i \in 2..Len(yielded) :
            date_of(yielded[i].time) = succ(date_of(yielded[i - 1].time))

\* C4. No-skip, backward: with a whitelist of one descriptor that occurs on
\* every date, each yielded timestamp falls on the day before the one before it.
C4_HistoryNeverSkipsADay ==
    (pc = "history" /\ SingleAlwaysOccurring) =>
        \A i \in 2..Len(yielded) :
            date_of(yielded[i].time) = pred(date_of(yielded[i - 1].time))

\* C5. Productivity: with a whitelisted descriptor that occurs on every date,
\* every next() call returns.  A call that has taken YearLen + 1 Restarting
\* items never returns: after the first the cursor stood at the day's edge
\* with the cycle at its start, after YearLen more it stands there again on
\* a date of the same ordinal, and the sky repeats with the ordinal.
C5_NextReturns ==
    (pc \in {"forecast", "history"} /\ \E e \in Range(whitelist) : AlwaysOccurs(e)) =>
        restarts <= YearLen

\* C6. Completeness, forward: an occurrence (e, t) of a whitelisted descriptor
\* on a date from the start date on, with t later than the start, is yielded.
\* The cursor only moves forward, so an occurrence it has passed is yielded
\* already or never.  Only crossings of the zenith are asked for (the
\* timestamps C10 is about are left out).
C6_ForecastDropsNothing ==
    pc = "forecast" =>
        \A e \in Range(whitelist) : \A d \in date_of(start_date)..Horizon :
            (/\ toe(d, e).some
             /\ CosHWithin(sky[ordinal(d)], e)
             /\ toe(d, e).v > start_date
             /\ current_time > toe(d, e).v)
                => \E i \in DOMAIN yielded :
                      yielded[i] = [event |-> e, time |-> toe(d, e).v]

\* C7. Whitelist containment: every descriptor yielded, by a forecast or a
\* history, is one of the whitelist handed to starting_from.
C7_YieldsOnlyWhitelisted ==
    \A i \in DOMAIN yielded : yielded[i].event \in Range(whitelist)

\* A history that has yielded two different descriptors, from a whitelist
\* that leaves some preset out.
C7_Witness ==
    /\ pc = "history"
    /\ Len(yielded) >= 2
    /\ yielded[1].event # yielded[2].event
    /\ Range(whitelist) # WEvents

\* C8. Ordering law: cmp is a total order on the ten descriptors (antisymmetric,
\* transitive, Equal exactly on equal descriptors), every Sunrise before every
\* Sunset, Sunrises by decreasing and Sunsets by increasing zenith angle; and
\* [DUSK, DAWN, SUNRISE, SUNSET] sorts to [DAWN, SUNRISE, SUNSET, DUSK].
C8_OrderingLaw ==
    ord.phase = "done" =>
        /\ ord.ab = reverse(ord.ba)
        /\ (ord.ab = "Equal") <=> (ord.a = ord.b)
        /\ (ord.ab # "Greater" /\ ord.bc # "Greater") => ord.ac # "Greater"
        /\ (ord.ab = "Less" /\ ord.bc # "Greater") => ord.ac = "Less"
        /\ (is_sunrise(ord.a) /\ is_sunset(ord.b)) => ord.ab = "Less"
        /\ (is_sunrise(ord.a) /\ is_sunrise(ord.b)) =>
              ord.ab = IntCmp(angle(ord.b.zenith), angle(ord.a.zenith))
        /\ (is_sunset(ord.a) /\ is_sunset(ord.b)) =>
              ord.ab = IntCmp(angle(ord.a.zenith), angle(ord.b.zenith))
        /\ ord.list = TestList => ord.sorted = <<DAWN, SUNRISE, SUNSET, DUSK>>

\* The test's list sorted, beside two Sunrises of different zeniths compared.
C8_Witness ==
    /\ ord.phase = "done"
    /\ ord.list = TestList
    /\ ord.sorted = <<DAWN, SUNRISE, SUNSET, DUSK>>
    /\ ord.a = DAWN
    /\ ord.b = SUNRISE
    /\ ord.ab = "Less"

\* C9. Empty-whitelist precondition: starting_from panics exactly on an empty
\* whitelist, and then no field of a SunEvents was set and nothing was computed.
C9_PanicsIffEmpty ==
    /\ pc # "new" => ((pc = "panicked") <=> (whitelist = <<>>))
    /\ pc = "panicked" =>
          /\ event_whitelist_iter.items = <<>>
          /\ yielded = <<>>
          /\ ~running
    /\ Built => event_whitelist_iter.items # <<>>

\* starting_from has panicked.
C9_Witness == pc = "panicked" /\ whitelist = <<>>

\* C10. Non-occurrence: time_of_event returns None whenever cosH lies outside
\* [-1, 1], for Sunrise and Sunset alike, and a timestamp only when it lies
\* within.
C10_NoneIffOutside ==
    alg.phase = "done" => (alg.result.some <=> CosHWithin(alg.term, alg.event))

\* C11. One day per cycle: from one Restarting step to the next the cursor's
\* date moves by exactly one day, forward in a forecast and back in a history
\* (the first from the start date), so every date from the start date up to
\* the cursor's has been a query date of time_of_event.
C11_OneDayPerPass ==
    /\ pc = "forecast" =>
          /\ \A i \in DOMAIN boundaries :
                boundaries[i] = succ(IF i = 1 THEN date_of(start_date)
                                     ELSE boundaries[i - 1])
          /\ \A i \in DOMAIN boundaries :
                \A d \in date_of(start_date)..pred(boundaries[i]) : d \in Range(queried)
    /\ pc = "history" =>
          /\ \A i \in DOMAIN boundaries :
                boundaries[i] = pred(IF i = 1 THEN date_of(start_date)
                                     ELSE boundaries[i - 1])
          /\ \A i \in DOMAIN boundaries :
                \A d \in succ(boundaries[i])..date_of(start_date) : d \in Range(queried)

\* C12. Day-boundary step: a step of next() that takes the Restarting item
\* puts the cursor on 00:00:00 of the day after its date (forecast) or on
\* 23:59:59 of the day before its date (history), yields nothing, and leaves
\* the position and the items of the cycle as they were.
C12_DayBoundaryStep ==
    [][(/\ pc \in {"forecast", "history"}
        /\ cycle_item.tag = "Restarting"
        /\ event_whitelist_iter'.at # event_whitelist_iter.at) =>
          /\ pc = "forecast" =>
                current_time' = (date_of(current_time) + 1) * SecsPerDay
          /\ pc = "history" =>
                current_time' = (date_of(current_time) - 1) * SecsPerDay + (SecsPerDay - 1)
          /\ yielded' = yielded
          /\ pos' = pos
          /\ event_whitelist_iter'.items = event_whitelist_iter.items]_vars

\* A history whose last step took the Restarting item after an occurrence had
\* been yielded: the cursor stands a second before midnight.
C12_Witness ==
    /\ pc = "history"
    /\ yielded # <<>>
    /\ boundaries # <<>>
    /\ event_whitelist_iter.at = 1
    /\ current_time = boundaries[Len(boundaries)] * SecsPerDay + (SecsPerDay - 1)
    /\ current_time < yielded[Len(yielded)].time

\* The dates handed to time_of_event in the present (or last) call of next().
AskedInCall == SubSeq(queried, call.asked + 1, Len(queried))

\* time_of_event returns None for every whitelisted descriptor on date d.
NoneOn(d) == \A e \in Range(whitelist) : ~toe(d, e).some

\* time_of_event returns a timestamp for some whitelisted descriptor on date d
\* (a crossing of the zenith: the timestamps C10 is about are left out).
OccursOn(d) ==
    \E e \in Range(whitelist) : toe(d, e).some /\ CosHWithin(sky[ordinal(d)], e)

\* C13. Polar stretch: when a forecast next() is entered with the cursor on
\* date D, time_of_event returns None for every whitelisted descriptor on the
\* k >= 1 dates D .. D+k-1 and a timestamp for some whitelisted descriptor on
\* D+k, the call takes exactly k Restarting steps, queries the dates D .. D+k
\* in order, each of them, and returns an occurrence computed for D+k.
C13_PolarStretch ==
    (pc = "forecast" /\ (running \/ yielded # <<>>)) =>
        \A k \in 1..YearLen :
            LET D == date_of(call.time)
            IN  (/\ \A j \in 0..(k - 1) : NoneOn(D + j)
                 /\ OccursOn(D + k))
                => /\ restarts <= k
                   /\ \A i \in 1..(Len(AskedInCall) - 1) :
                         AskedInCall[i] <= AskedInCall[i + 1]
                   /\ Range(AskedInCall) \subseteq D..(D + k)
                   /\ ~running =>
                         /\ restarts = k
                         /\ Range(AskedInCall) = D..(D + k)
                         /\ \E e \in Range(whitelist) :
                               /\ toe(D + k, e).some
                               /\ yielded[Len(yielded)] =
                                     [event |-> e, time |-> toe(D + k, e).v]

\* UT of the call of time_of_event held in alg.
AlgUT == universal_time(local_hour_angle(alg.term, alg.event).v, alg.lng_hour, alg.term)

\* C14. Day-correction: the timestamp time_of_event returns lies on the day
\* before the requested date exactly when the descriptor is a Sunrise,
\* lng_hour > 0 and UT > 12; on the day after exactly when it is a Sunset,
\* lng_hour < 0 and UT < 12; and on the requested date in every other case.
C14_DayCorrection ==
    (alg.phase = "done" /\ alg.result.some) =>
        /\ date_of(alg.result.v) = alg.date - 1
              <=> (/\ alg.event.event = "Sunrise"
                   /\ alg.lng_hour > 0
                   /\ ~AlgUT.nan /\ AlgUT.v > 12 * TicksPerHour)
        /\ date_of(alg.result.v) = alg.date + 1
              <=> (/\ alg.event.event = "Sunset"
                   /\ alg.lng_hour < 0
                   /\ ~AlgUT.nan /\ AlgUT.v < 12 * TicksPerHour)
        /\ date_of(alg.result.v) \in {alg.date - 1, alg.date, alg.date + 1}

\* A sunset west of Greenwich returned on the day after the requested date.
C14_Witness ==
    /\ alg.phase = "done"
    /\ alg.result.some
    /\ alg.event = SUNSET
    /\ alg.lng_hour < 0
    /\ date_of(alg.result.v) = alg.date + 1

\* C15. Restart equivalence: a second generator constructed from the timestamp
\* the first has just yielded (same position, same whitelist, same direction)
\* returns from its first next() the occurrence the first generator returns
\* from its following next(), and the two then stand on the same cursor at
\* the same place of their cycles - so all their later occurrences agree too.
C15_RestartEquivalence ==
    (/\ fresh.pc # "none"
     /\ fresh.yielded # <<>>
     /\ Len(yielded) = fresh.from + 1
     /\ ~running)
        => /\ fresh.yielded[1] = yielded[Len(yielded)]
           /\ fresh.current_time = current_time
           /\ fresh.at = event_whitelist_iter.at

\* The argument time_of_event hands to NaiveTime::from_num_seconds_from_midnight
\* in the call held in alg, and the time of day of the timestamp it returns.
AlgSeconds == as_u32_secs(AlgUT)
AlgTimeOfDay == alg.result.v - date_of(alg.result.v) * SecsPerDay

\* C16, as claimed.  Second rounding: for UT in [0, 24) the time of day of the
\* returned timestamp is UT in seconds rounded to the nearest whole second (at
\* most half a second away from UT), and lies in 0 .. 86399.
C16_RoundedToNearest ==
    (alg.phase = "done" /\ alg.result.some /\ ~AlgUT.nan) =>
        /\ 2 * Abs(TicksPerSec * AlgTimeOfDay - AlgUT.v) <= TicksPerSec
        /\ AlgSeconds \in 0..(SecsPerDay - 1)

\* C16, amended.  For UT in [0, 24) the time of day of the returned timestamp
\* is UT in seconds with its fraction dropped (the greatest whole second not
\* after UT), and lies in 0 .. 86399.
C16_FractionDropped ==
    (alg.phase = "done" /\ alg.result.some /\ ~AlgUT.nan) =>
        /\ AlgUT.v \in 0..(24 * TicksPerHour - 1)
        /\ AlgTimeOfDay = AlgSeconds
        /\ TicksPerSec * AlgTimeOfDay <= AlgUT.v
        /\ AlgUT.v < TicksPerSec * (AlgTimeOfDay + 1)
        /\ AlgSeconds \in 0..(SecsPerDay - 1)

\* A timestamp whose UT lay three quarters of a second after the whole second
\* returned.
C16_Witness ==
    /\ alg.phase = "done"
    /\ alg.result.some
    /\ ~AlgUT.nan
    /\ AlgUT.v - TicksPerSec * AlgTimeOfDay = 3

\* C17. Cycle shape: the cycle built from a non-empty whitelist, whatever its
\* order and its duplicates, holds each distinct whitelisted descriptor once,
\* in ascending SunEvent order, and then the one Restarting item; from one
\* Restarting step to the next each distinct descriptor is evaluated exactly
\* once; and every whitelist with the same set of descriptors builds the same
\* cycle (the only thing next() reads of the whitelist), so the generator
\* built from it yields the same occurrences.
C17_CycleShape ==
    Built =>
        LET items == event_whitelist_iter.items
            n == Cardinality(Range(whitelist))
        IN  /\ Len(items) = n + 1
            /\ items[n + 1] = Restarting
            /\ \A i \in 1..n : items[i].tag = "Next"
            /\ {items[i].event : i \in 1..n} = Range(whitelist)
            /\ \A i \in 1..(n - 1) : cmp(items[i].event, items[i + 1].event) = "Less"
            /\ \A i, j \in DOMAIN evaluated : evaluated[i] = evaluated[j] => i = j
            /\ cycle_item.tag = "Restarting" =>
                  /\ Len(evaluated) = n
                  /\ Range(evaluated) = Range(whitelist)
            /\ pc = "events" =>
                  \A w \in Whitelists :
                      Range(w) = Range(whitelist) => cycled(w).items = items

\* A history built from a whitelist in descending order that has taken its
\* second pass of the cycle up to the Restarting item.
C17_Witness ==
    /\ pc = "history"
    /\ whitelist = <<DUSK, DAWN>>
    /\ Len(boundaries) = 1
    /\ cycle_item.tag = "Restarting"
    /\ evaluated = <<DAWN, DUSK>>

====
